---- MODULE Spec2Model ----
(***************************************************************************)
(* A model of xls/common/strong_int.h: StrongInt<TagType, NativeType,      *)
(* ValidatorType>, its validator hooks, its operators, the StrongIntConvert *)
(* protocol, the stream and hash support and StrongIntRange.               *)
(*                                                                         *)
(* A program holds two instances x and y of one instantiation and applies  *)
(* the operators of the header to them, one operator per step.  A second   *)
(* program (RangeSpec) runs range-for loops over a StrongIntRange, a third *)
(* (HashSpec) uses instances as keys of a hash container.                  *)
(***************************************************************************)
EXTENDS Integers, Sequences, FiniteSets, TLC

VARIABLES
  kind,       \* NativeType of the instantiation
  validator,  \* ValidatorType of the instantiation
  x, y,       \* value_ of the two instances
  status,     \* "running", "aborted" (a hook ended the process), "trapped"
  ub,         \* TRUE once an operation with undefined behaviour was executed
  op,         \* the operator the current statement applied ("idle": none yet)
  px, py,     \* value_ of x and of y when the last step began
  arg,        \* the numeric argument of the last step (0 when it has none)
  hooks,      \* the hook calls of the last step, in call order
  retForm,    \* what the last step returned: "none", "ref", "value", "bool",
              \* "hash", "text", "illformed"
  retVal,     \* the native value / boolean (0, 1) / hash returned
  retText,    \* the characters written to the stream (character codes)
  tfrom, tto, \* source and destination type of the last converting constructor
  begin_, end_,  \* StrongIntRange: current_ of the two stored iterators
  current_,   \* current_ of the loop's iterator
  out,        \* values the running (or last) loop has yielded so far
  lpc,        \* "norange", "ready", "loop", "done"
  prev,       \* values the previous complete loop over this range yielded
  runs,       \* complete loops over this range
  table,      \* the hash container: bucket -> set of stored keys (value_)
  hx, hy,     \* last hash computed for x and for y (-1: none, or stale)
  steps       \* operators applied so far

vars == <<kind, validator, x, y, status, ub, op, px, py, arg, hooks, retForm,
          retVal, retText, tfrom, tto, begin_, end_, current_, out, lpc, prev,
          runs, table, hx, hy, steps>>

opVars    == <<x, y, op, px, py, arg, hooks, retForm, retVal, retText, tfrom, tto>>
rangeVars == <<begin_, end_, current_, out, lpc, prev, runs>>
hashVars  == <<table, hx, hy>>

----------------------------------------------------------------------------
(* Native integer types *)

\* Width of int8_t, uint8_t and char.
CharBits == 8
\* Width at which the model represents int64_t and uint64_t.
WideBits == 3

NarrowKinds == {"int8_t", "uint8_t", "char"}
WideKinds   == {"int64_t", "uint64_t"}
Kinds       == NarrowKinds \cup WideKinds

Bits(k)   == IF k \in WideKinds THEN WideBits ELSE CharBits
\* char is taken as signed, as on x86.
Signed(k) == k \in {"int8_t", "char", "int64_t"}
\* Types of rank below int are promoted to int before any arithmetic.
Promoted(k) == k \in NarrowKinds

RECURSIVE Power2(_)
Power2(n) == IF n <= 0 THEN 1 ELSE 2 * Power2(n - 1)
Pow2Table == [n \in 0 .. 20 |-> Power2(n)]
Pow2(n)   == Pow2Table[n]

\* std::numeric_limits<ValueType>::max() and min().
MaxTable == [k \in Kinds |-> IF Signed(k) THEN Pow2(Bits(k) - 1) - 1 ELSE Pow2(Bits(k)) - 1]
MinTable == [k \in Kinds |-> IF Signed(k) THEN 0 - Pow2(Bits(k) - 1) ELSE 0]
ModTable == [k \in Kinds |-> Pow2(Bits(k))]
Max(k) == MaxTable[k]
Min(k) == MinTable[k]

NativeRange(k) == Min(k) .. Max(k)
Fits(k, n)     == Min(k) <= n /\ n <= Max(k)

\* static_cast<ValueType>(n): the value congruent to n modulo 2^w.
Cast(k, n) ==
  LET m == n % ModTable[k]
  IN  IF Signed(k) /\ m > Max(k) THEN m - ModTable[k] ELSE m

Abs(n) == IF n < 0 THEN 0 - n ELSE n
\* C++ integer division truncates toward zero.
TruncDiv(a, b) ==
  IF (a >= 0) = (b > 0) THEN Abs(a) \div Abs(b) ELSE 0 - (Abs(a) \div Abs(b))
TruncMod(a, b) == a - b * TruncDiv(a, b)

RECURSIVE BitsAnd(_, _)
BitsAnd(a, b) ==
  IF a = 0 \/ b = 0 THEN 0
  ELSE (a % 2) * (b % 2) + 2 * BitsAnd(a \div 2, b \div 2)
RECURSIVE BitsOr(_, _)
BitsOr(a, b) ==
  IF a = 0 /\ b = 0 THEN 0
  ELSE (IF a % 2 = 1 \/ b % 2 = 1 THEN 1 ELSE 0) + 2 * BitsOr(a \div 2, b \div 2)
RECURSIVE BitsXor(_, _)
BitsXor(a, b) ==
  IF a = 0 /\ b = 0 THEN 0
  ELSE (IF (a % 2) # (b % 2) THEN 1 ELSE 0) + 2 * BitsXor(a \div 2, b \div 2)

\* The two's complement bit pattern of n in the width of k.
Pattern(k, n) == n % ModTable[k]

\* The right operand as the operation reads it: an int operand of an unsigned
\* type of int rank or above is converted to that type first; a shift count
\* is not converted.
RhsConv(o, k, b) ==
  IF ~Promoted(k) /\ ~Signed(k) /\ o \in {"*", "/", "%"} THEN Cast(k, b) ELSE b

\* Whether a o b, evaluated in the type the operands are converted to, has
\* defined behaviour: signed arithmetic must not overflow, a divisor must not
\* be zero, a shift count must lie within the width of the (promoted) left
\* operand.  Shifts of negative values are defined, as from C++20 on.
Defined(o, k, a, b) ==
  LET r == RhsConv(o, k, b) IN
  CASE o \in {"+", "-", "*"} ->
         \/ Promoted(k)
         \/ ~Signed(k)
         \/ Fits(k, CASE o = "+" -> a + r [] o = "-" -> a - r [] OTHER -> a * r)
    [] o \in {"/", "%"} ->
         /\ r # 0
         /\ ~(Signed(k) /\ ~Promoted(k) /\ a = Min(k) /\ r = -1)
    [] o \in {"<<", ">>"} ->
         /\ 0 <= b
         /\ b < (IF Promoted(k) THEN 32 ELSE Bits(k))
    [] OTHER -> TRUE

\* The mathematical value of a o b where it is defined.
Exact(o, k, a, b) ==
  LET r == RhsConv(o, k, b) IN
  CASE o = "+"  -> a + r
    [] o = "-"  -> a - r
    [] o = "*"  -> a * r
    [] o = "/"  -> TruncDiv(a, r)
    [] o = "%"  -> TruncMod(a, r)
    [] o = "<<" -> a * Pow2(b)
    [] o = ">>" -> IF a >= 0 THEN a \div Pow2(b) ELSE 0 - ((Pow2(b) - 1 - a) \div Pow2(b))
    [] o = "&"  -> BitsAnd(Pattern(k, a), Pattern(k, b))
    [] o = "|"  -> BitsOr(Pattern(k, a), Pattern(k, b))
    [] o = "^"  -> BitsXor(Pattern(k, a), Pattern(k, b))

\* Largest magnitude among the values an undefined operation is taken to
\* leave (besides the type's limits and the wrapped result).
MaxUndefined == 1

\* The values an operation of undefined behaviour may leave: any value of
\* the type, of which the model tries the small ones, the limits and, where
\* there is one, the two's complement result.
UndefinedValues(o, k, a, b) ==
  {v \in (0 - MaxUndefined) .. MaxUndefined : Fits(k, v)} \cup {Min(k), Max(k)}
    \cup (IF o \in {"+", "-", "*"} THEN {Cast(k, Exact(o, k, a, b))} ELSE {})

\* The values lhs o rhs can leave in a ValueType: the converted result where
\* the operation is defined.
Native(o, k, a, b) ==
  IF Defined(o, k, a, b) THEN {Cast(k, Exact(o, k, a, b))}
  ELSE UndefinedValues(o, k, a, b)

----------------------------------------------------------------------------
(* Validators.  "NullStrongIntValidator" is the header's; the other two are  *)
(* custom validators of the kind the header's comments describe: one whose   *)
(* hooks end the process when the operation's result does not fit the native *)
(* type, one whose init hook rejects zero.  A hook is TRUE when it returns   *)
(* and FALSE when it ends the process; its return value is never used.       *)

Validators == {"NullStrongIntValidator", "OverflowValidator", "NonZeroInitValidator"}

Checks(v) == v = "OverflowValidator"

ValidateInit(v, k, a) ==
  CASE v = "NullStrongIntValidator" -> TRUE
    [] v = "OverflowValidator"      -> Fits(k, a)
    [] v = "NonZeroInitValidator"   -> a # 0
ValidateNegate(v, k, a)        == Checks(v) => Fits(k, 0 - a)
ValidateBitNot(v, k, a)        == TRUE
ValidateAdd(v, k, a, b)        == Checks(v) => Fits(k, a + b)
ValidateSubtract(v, k, a, b)   == Checks(v) => Fits(k, a - b)
ValidateMultiply(v, k, a, b)   == Checks(v) => Fits(k, a * b)
\* ValidateDivide with a check the no-op validator does not make.
ValidateDivideChecking(v, k, a, b) == b # 0
ValidateDivide(v, k, a, b)     == Checks(v) => (b # 0 /\ Fits(k, TruncDiv(a, b)))
ValidateModulo(v, k, a, b)     == Checks(v) => b # 0
ValidateLeftShift(v, k, a, b)  == Checks(v) => (0 <= b /\ b < Bits(k) /\ a >= 0 /\ Fits(k, a * Pow2(b)))
ValidateRightShift(v, k, a, b) == Checks(v) => (0 <= b /\ b < Bits(k))
ValidateBitAnd(v, k, a, b)     == TRUE
ValidateBitOr(v, k, a, b)      == TRUE
ValidateBitXor(v, k, a, b)     == TRUE

\* The hook each binary operator names.
HookName(o) ==
  CASE o = "+"  -> "ValidateAdd"
    [] o = "-"  -> "ValidateSubtract"
    [] o = "*"  -> "ValidateMultiply"
    [] o = "/"  -> "ValidateDivide"
    [] o = "%"  -> "ValidateModulo"
    [] o = "<<" -> "ValidateLeftShift"
    [] o = ">>" -> "ValidateRightShift"
    [] o = "&"  -> "ValidateBitAnd"
    [] o = "|"  -> "ValidateBitOr"
    [] o = "^"  -> "ValidateBitXor"

Hook(o, v, k, a, b) ==
  CASE o = "+"  -> ValidateAdd(v, k, a, b)
    [] o = "-"  -> ValidateSubtract(v, k, a, b)
    [] o = "*"  -> ValidateMultiply(v, k, a, b)
    [] o = "/"  -> ValidateDivide(v, k, a, b)
    [] o = "%"  -> ValidateModulo(v, k, a, b)
    [] o = "<<" -> ValidateLeftShift(v, k, a, b)
    [] o = ">>" -> ValidateRightShift(v, k, a, b)
    [] o = "&"  -> ValidateBitAnd(v, k, a, b)
    [] o = "|"  -> ValidateBitOr(v, k, a, b)
    [] o = "^"  -> ValidateBitXor(v, k, a, b)

----------------------------------------------------------------------------
(* Inputs *)

\* Largest numeric right operand (multiplier, divisor, shift count) tried.
MaxNumArg == 3

InputVals(k) == {v \in {Min(k), -1, 0, 1, 65, Max(k)} : Fits(k, v)}
RhsVals(k)   == {v \in {Min(k), -1, 1, Max(k)} : Fits(k, v)}
\* Arguments of the numeric constructor: any integer, in range or not; the
\* last is 1024 for an 8-bit type, as in MyStrongInt8 foo(1024).
CtorArgs(k) == InputVals(k) \cup {Min(k) - 1, Max(k) + 1, 4 * ModTable[k]}
NumArgs     == -1 .. MaxNumArg

----------------------------------------------------------------------------
(* One step of the program: an operator of StrongInt applied to x (and y).  *)

\* Longest sequence of operators one run applies.
MaxSteps == 2

\* The program is between two statements and may run one more.
Running == status = "running" /\ op = "idle" /\ steps < MaxSteps

\* What the members and free operators leave alone.
Frame == steps' = steps + 1 /\ UNCHANGED <<kind, validator, rangeVars, hashVars>>

\* The step's record of the operator applied and of the operands it began with.
Begin(name, n) ==
  /\ op' = name
  /\ px' = x
  /\ py' = y
  /\ arg' = n
  /\ retText' = <<>>
  /\ tfrom' = ""
  /\ tto' = ""

\* The ways an operator can end.  Its operation hook (call hk, returning iff
\* ok) comes first; the native operation follows and, where its behaviour is
\* undefined, leaves any value or traps; an operator that builds its result
\* with the numeric constructor then calls the init hook on the value handed
\* to that constructor.  results: pairs <<constructor argument, value stored>>.
Outcomes(hk, ok, defined, results, construct) ==
  IF ~ok
  THEN {[st |-> "aborted", hk |-> hk, v |-> 0, undef |-> FALSE]}
  ELSE {[st    |-> IF construct /\ ~ValidateInit(validator, kind, r[1])
                   THEN "aborted" ELSE "running",
         hk    |-> IF construct THEN Append(hk, <<"ValidateInit", r[1], 0>>) ELSE hk,
         v     |-> r[2],
         undef |-> ~defined] : r \in results}
       \cup (IF defined THEN {}
             ELSE {[st |-> "trapped", hk |-> hk, v |-> 0, undef |-> TRUE]})

\* An operator that returns a new StrongInt (or a bool) and changes neither
\* operand.
Returns(o, form) ==
  /\ status' = o.st
  /\ hooks' = o.hk
  /\ ub' = (ub \/ o.undef)
  /\ retForm' = IF o.st = "running" THEN form ELSE "none"
  /\ retVal' = IF o.st = "running" THEN o.v ELSE 0
  /\ UNCHANGED <<x, y>>

\* An operator that stores its result in x and returns *this.
Assigns(o) ==
  /\ status' = o.st
  /\ hooks' = o.hk
  /\ ub' = (ub \/ o.undef)
  /\ x' = IF o.st = "running" THEN o.v ELSE x
  /\ retForm' = IF o.st = "running" THEN "ref" ELSE "none"
  /\ retVal' = IF o.st = "running" THEN o.v ELSE 0
  /\ UNCHANGED y

\* AssignsReturningCopy with the copy made after the store.
AssignsReturningLateCopy(o) ==
  /\ status' = o.st
  /\ hooks' = o.hk
  /\ ub' = (ub \/ o.undef)
  /\ x' = IF o.st = "running" THEN o.v ELSE x
  /\ retForm' = IF o.st = "running" THEN "value" ELSE "none"
  /\ retVal' = IF o.st = "running" THEN o.v ELSE 0
  /\ UNCHANGED y

\* An operator that stores its result in x and returns the copy made of x
\* before the store.
AssignsReturningCopy(o) ==
  /\ status' = o.st
  /\ hooks' = o.hk
  /\ ub' = (ub \/ o.undef)
  /\ x' = IF o.st = "running" THEN o.v ELSE x
  /\ retForm' = IF o.st = "running" THEN "value" ELSE "none"
  /\ retVal' = IF o.st = "running" THEN x ELSE 0
  /\ UNCHANGED y

Same(S) == {<<r, r>> : r \in S}

(* Constructors *)

\* DefaultValue with a nonzero value.
DefaultValueNonzero == 0 + 1
\* NativeType(): the value-initialized native value.
DefaultValue == 0
\* StrongInt(): the init hook on NativeType(), then value_ = NativeType().
DefaultConstruct ==
  /\ Running
  /\ Begin("StrongInt()", 0)
  /\ \E o \in Outcomes(<<>>, TRUE, TRUE, {<<DefaultValue, DefaultValue>>}, TRUE) :
       Assigns(o)
  /\ Frame

\* InitHookArg with the argument converted to ValueType first.
InitHookArgConverted(k, n) == Cast(k, n)
\* What StrongInt(T init_value) hands to ValidateInit<ValueType>: init_value
\* in its own type T.
InitHookArg(k, n) == n

\* explicit StrongInt(T init_value): the init hook on init_value as given,
\* then value_ = static_cast<ValueType>(init_value).  Builds x anew.
Construct ==
  /\ Running
  /\ \E n \in CtorArgs(kind) :
       /\ Begin("StrongInt(T)", n)
       /\ \E o \in Outcomes(<<>>, TRUE, TRUE,
                            {<<InitHookArg(kind, n), Cast(kind, n)>>}, TRUE) :
            Assigns(o)
  /\ Frame

\* The implicit copy assignment x = y: no hook.
CopyAssign ==
  /\ Running
  /\ Begin("=", 0)
  /\ Assigns([st |-> "running", hk |-> <<>>, v |-> y, undef |-> FALSE])
  /\ Frame

(* Unary operators *)

\* operator!: value_ == 0, no hook.
OpNot ==
  /\ Running
  /\ Begin("!", 0)
  /\ Returns([st |-> "running", hk |-> <<>>, v |-> IF x = 0 THEN 1 ELSE 0,
              undef |-> FALSE], "bool")
  /\ Frame

\* operator+: StrongInt(value_).
OpUnaryPlus ==
  /\ Running
  /\ Begin("+x", 0)
  /\ \E o \in Outcomes(<<>>, TRUE, TRUE, {<<x, x>>}, TRUE) : Returns(o, "value")
  /\ Frame

\* -value_: computed in int for a promoted type, so the constructor is handed
\* the unconverted negation; in ValueType otherwise, where negating the
\* minimum of a signed type is undefined.
Negated(k, a) ==
  IF Promoted(k) THEN {<<0 - a, Cast(k, 0 - a)>>}
  ELSE IF Signed(k) /\ a = Min(k) THEN Same(UndefinedValues("-", k, 0, a))
  ELSE {<<Cast(k, 0 - a), Cast(k, 0 - a)>>}

\* operator-: the negate hook, then StrongInt(-value_).
OpNegate ==
  /\ Running
  /\ Begin("-x", 0)
  /\ \E o \in Outcomes(<< <<"ValidateNegate", x, 0>> >>,
                       ValidateNegate(validator, kind, x),
                       Promoted(kind) \/ ~Signed(kind) \/ x # Min(kind),
                       Negated(kind, x), TRUE) :
       Returns(o, "value")
  /\ Frame

\* operator~: the bit-not hook, then StrongInt(ValueType(~value_)).
OpBitNot ==
  /\ Running
  /\ Begin("~x", 0)
  /\ \E o \in Outcomes(<< <<"ValidateBitNot", x, 0>> >>,
                       ValidateBitNot(validator, kind, x), TRUE,
                       Same({Cast(kind, (0 - x) - 1)}), TRUE) :
       Returns(o, "value")
  /\ Frame

(* Increment and decrement *)

\* The hook call of ++ and --: the add or subtract hook on (value_, 1), made
\* before value_ changes.
StepHookArgs(o, k, a) == <<HookName(o), a, 1>>

\* The ways ++value_ (o = "+") and --value_ (o = "-") can end.
StepOutcomes(o, a) ==
  Outcomes(<< StepHookArgs(o, kind, a) >>, Hook(o, validator, kind, a, 1),
           Defined(o, kind, a, 1), Same(Native(o, kind, a, 1)), FALSE)

OpPreIncrement ==
  /\ Running
  /\ Begin("++x", 0)
  /\ \E o \in StepOutcomes("+", x) : Assigns(o)
  /\ Frame

OpPostIncrement ==
  /\ Running
  /\ Begin("x++", 0)
  /\ \E o \in StepOutcomes("+", x) : AssignsReturningCopy(o)
  /\ Frame

OpPreDecrement ==
  /\ Running
  /\ Begin("--x", 0)
  /\ \E o \in StepOutcomes("-", x) : Assigns(o)
  /\ Frame

OpPostDecrement ==
  /\ Running
  /\ Begin("x--", 0)
  /\ \E o \in StepOutcomes("-", x) : AssignsReturningCopy(o)
  /\ Frame

(* Action-assignment operators *)

\* CompoundOutcomes with the hook called after the store, on the new value_.
CompoundOutcomesStoreFirst(o, a, b) ==
  UNION {Outcomes(<< <<HookName(o), r, b>> >>, Hook(o, validator, kind, r, b),
                  Defined(o, kind, a, b), Same({r}), FALSE) :
         r \in Native(o, kind, a, b)}

\* CompoundOutcomes as if x o= b were written x = x o b: the result is built
\* by the numeric constructor, init hook included.
CompoundOutcomesConstructing(o, a, b) ==
  Outcomes(<< <<HookName(o), a, b>> >>, Hook(o, validator, kind, a, b),
           Defined(o, kind, a, b), Same(Native(o, kind, a, b)), TRUE)

\* CompoundOutcomes with the hook called a second time.
CompoundOutcomesHookTwice(o, a, b) ==
  Outcomes(<< <<HookName(o), a, b>>, <<HookName(o), a, b>> >>,
           Hook(o, validator, kind, a, b),
           Defined(o, kind, a, b), Same(Native(o, kind, a, b)), FALSE)

\* The ways value_ o= b can end: the operator's hook on (value_, b) as they
\* are before the store, then the native operation.
CompoundOutcomes(o, a, b) ==
  Outcomes(<< <<HookName(o), a, b>> >>, Hook(o, validator, kind, a, b),
           Defined(o, kind, a, b), Same(Native(o, kind, a, b)), FALSE)

OpAddAssign ==
  /\ Running
  /\ Begin("+=", 0)
  /\ \E o \in CompoundOutcomes("+", x, y) : Assigns(o)
  /\ Frame

OpSubtractAssign ==
  /\ Running
  /\ Begin("-=", 0)
  /\ \E o \in CompoundOutcomes("-", x, y) : Assigns(o)
  /\ Frame

OpMultiplyAssign ==
  /\ Running
  /\ \E n \in NumArgs :
       /\ Begin("*=", n)
       /\ \E o \in CompoundOutcomes("*", x, n) : Assigns(o)
  /\ Frame

OpDivideAssign ==
  /\ Running
  /\ \E n \in NumArgs :
       /\ Begin("/=", n)
       /\ \E o \in CompoundOutcomes("/", x, n) : Assigns(o)
  /\ Frame

OpModuloAssign ==
  /\ Running
  /\ \E n \in NumArgs :
       /\ Begin("%=", n)
       /\ \E o \in CompoundOutcomes("%", x, n) : Assigns(o)
  /\ Frame

OpLeftShiftAssign ==
  /\ Running
  /\ \E n \in NumArgs :
       /\ Begin("<<=", n)
       /\ \E o \in CompoundOutcomes("<<", x, n) : Assigns(o)
  /\ Frame

OpRightShiftAssign ==
  /\ Running
  /\ \E n \in NumArgs :
       /\ Begin(">>=", n)
       /\ \E o \in CompoundOutcomes(">>", x, n) : Assigns(o)
  /\ Frame

OpBitAndAssign ==
  /\ Running
  /\ Begin("&=", 0)
  /\ \E o \in CompoundOutcomes("&", x, y) : Assigns(o)
  /\ Frame

OpBitOrAssign ==
  /\ Running
  /\ Begin("|=", 0)
  /\ \E o \in CompoundOutcomes("|", x, y) : Assigns(o)
  /\ Frame

OpBitXorAssign ==
  /\ Running
  /\ Begin("^=", 0)
  /\ \E o \in CompoundOutcomes("^", x, y) : Assigns(o)
  /\ Frame

(* Chained action-assignment *)

\* Operators whose right operand is a StrongInt, and those whose right
\* operand is a number.
StrongVsStrongOps  == {"+", "-", "&", "|", "^"}
StrongVsNumericOps == {"*", "/", "%", "<<", ">>"}
CompoundOps == StrongVsStrongOps \cup StrongVsNumericOps
\* The member operator of each: operator+= for "+", and so on.
AssignTable == [o \in CompoundOps |-> o \o "="]
AssignName(o) == AssignTable[o]
AssignNames == {AssignName(o) : o \in CompoundOps}
\* The statement (x o1= a) o2= b, named by its two operators.
ChainTable == [n \in AssignNames |-> [o \in CompoundOps |-> n \o " " \o AssignName(o)]]
ChainName(o1, o2) == ChainTable[AssignName(o1)][o2]
ChainNames == {ChainName(o1, o2) : o1 \in CompoundOps, o2 \in CompoundOps}

\* Numeric right operands tried for the second operator of a chain.
ChainArgs == 2 .. MaxNumArg

\* (x o1= a) o2= b: the first operator has returned *this, and the second is
\* applied to what it returned, that is to x itself.  Its hook is called on
\* value_ as the first operator left it.  arg is the second operator's
\* operand when that is a number.  Followed where the chain is the first
\* statement of the program and the first operator's behaviour was defined.
OpChained ==
  /\ status = "running"
  /\ ~ub
  /\ steps = 1
  /\ steps < MaxSteps
  /\ op \in AssignNames
  /\ retForm = "ref"
  /\ \E f \in CompoundOps :
     \E n \in (IF f \in StrongVsStrongOps THEN {arg} ELSE ChainArgs) :
       /\ op' = ChainTable[op][f]
       /\ arg' = n
       /\ \E o \in CompoundOutcomes(f, x, IF f \in StrongVsStrongOps THEN y ELSE n) :
            Assigns([o EXCEPT !.hk = hooks \o o.hk])
  /\ UNCHANGED <<px, py, retText, tfrom, tto>>
  /\ Frame

(* Free binary operators *)

\* BinaryResult with the macro's left operand used on both sides.
BinaryResultLhsTwice(o, k, a, b) == Native(o, k, a, a)

\* The value lhs o rhs hands to the result's constructor:
\* static_cast<ValueType>(lhs.value() o rhs.value()).
BinaryResult(o, k, a, b) == Native(o, k, a, b)

\* The ways lhs o rhs can end: the operator's hook on the two values, the
\* native operation, then the numeric constructor (and its init hook) on the
\* converted result.
BinaryOutcomes(o, a, b) ==
  Outcomes(<< <<HookName(o), a, b>> >>, Hook(o, validator, kind, a, b),
           Defined(o, kind, a, b), Same(BinaryResult(o, kind, a, b)), TRUE)

\* STRONG_INT_VS_STRONG_INT_BINARY_OP: x o y for + - & | ^.
OpStrongVsStrong ==
  /\ Running
  /\ \E f \in StrongVsStrongOps :
       /\ Begin(f, 0)
       /\ \E o \in BinaryOutcomes(f, x, y) : Returns(o, "value")
  /\ Frame

\* STRONG_INT_VS_NUMERIC_BINARY_OP: x o n for * / % << >>.
OpStrongVsNumeric ==
  /\ Running
  /\ \E f \in StrongVsNumericOps, n \in NumArgs :
       /\ Begin(f, n)
       /\ \E o \in BinaryOutcomes(f, x, n) : Returns(o, "value")
  /\ Frame

\* NUMERIC_VS_STRONG_INT_BINARY_OP: n * x, validated and computed as x * n.
OpNumericVsStrong ==
  /\ Running
  /\ \E n \in NumArgs :
       /\ Begin("n*x", n)
       /\ \E o \in BinaryOutcomes("*", x, n) : Returns(o, "value")
  /\ Frame

(* Comparison operators *)

Compare(f, a, b) ==
  CASE f = "==" -> a = b
    [] f = "!=" -> a # b
    [] f = "<"  -> a < b
    [] f = "<=" -> a <= b
    [] f = ">"  -> a > b
    [] f = ">=" -> a >= b

\* STRONG_INT_COMPARISON_OP: the native comparison of the two values, no hook.
ComparisonOps == {"==", "!=", "<", "<=", ">", ">="}
OpCompare ==
  /\ Running
  /\ \E f \in ComparisonOps :
       /\ Begin(f, 0)
       /\ Returns([st |-> "running", hk |-> <<>>,
                   v |-> IF Compare(f, x, y) THEN 1 ELSE 0, undef |-> FALSE], "bool")
  /\ Frame

(* Accessors *)

\* value(), and value<ValType>() and the explicit operator T(), which
\* convert value_ to the type asked for.
OpValue ==
  /\ Running
  /\ \E t \in Kinds :
       /\ Begin("value", 0)
       /\ Returns([st |-> "running", hk |-> <<>>,
                   v |-> IF t = kind THEN x ELSE Cast(t, x), undef |-> FALSE], "native")
  /\ Frame

\* Max() and Min().
OpLimits ==
  /\ Running
  /\ \E f \in {"Max", "Min"} :
       /\ Begin(f, 0)
       /\ Returns([st |-> "running", hk |-> <<>>,
                   v |-> IF f = "Max" THEN Max(kind) ELSE Min(kind),
                   undef |-> FALSE], "native")
  /\ Frame

(* Stream output *)

RECURSIVE Digits(_)
Digits(n) == IF n < 10 THEN <<48 + n>> ELSE Append(Digits(n \div 10), 48 + (n % 10))
\* The characters of n in decimal, as character codes ('0' is 48, '-' is 45).
Decimal(n) == IF n < 0 THEN <<45>> \o Digits(0 - n) ELSE Digits(n)

\* os << v for a native v of type t: the standard stream writes the one
\* character whose code is v for the character types (char, and int8_t and
\* uint8_t, which are signed char and unsigned char) and the decimal digits
\* of v for every other integer type.
CharacterTypes == {"char", "int8_t", "uint8_t"}
OstreamInsert(t, v) == IF t \in CharacterTypes THEN <<v % 256>> ELSE Decimal(v)

\* operator<<(std::ostream&, StrongInt): the int8_t and uint8_t overloads
\* convert to int and unsigned int first; the general overload inserts
\* arg.value() as it is.
StreamGeneral(k, v) == OstreamInsert(k, v)
Stream(k, v) ==
  CASE k = "int8_t"  -> OstreamInsert("int", v)
    [] k = "uint8_t" -> OstreamInsert("unsigned int", v)
    [] OTHER         -> OstreamInsert(k, v)

OpStream ==
  /\ Running
  /\ op' = "<<os"
  /\ px' = x
  /\ py' = y
  /\ arg' = 0
  /\ tfrom' = ""
  /\ tto' = ""
  /\ retText' = Stream(kind, x)
  /\ hooks' = <<>>
  /\ retForm' = "text"
  /\ retVal' = 0
  /\ UNCHANGED <<x, y, status, ub>>
  /\ Frame

(* Conversion between StrongInt types *)

\* Three StrongInt types over the same native type, and the ordered pairs for
\* which the program defines  ToType StrongIntConvert(FromType, ToType*).
Types      == {"Bytes", "Megabytes", "Gigabytes"}
Converters == {<<"Bytes", "Megabytes">>, <<"Megabytes", "Gigabytes">>}

\* The shift of the program's converters (20 in the header's example).
ConvShift == 1

\* The value of the converter's result: ToType((arg >> ConvShift).value()).
StrongIntConvert(from, to, k, v) == Cast(k, Exact(">>", k, v, ConvShift))

\* Viable with the first parameter reached through another converter.
ViableThroughConversion(from, to) ==
  {c \in Converters : c[2] = to /\ (c[1] = from \/ <<from, c[1]>> \in Converters)}

\* The converters overload resolution can call for StrongInt<To>(StrongInt<From>):
\* the second parameter must be To* exactly and the first From exactly, as no
\* implicit conversion between StrongInt types exists.
Viable(from, to) ==
  {c \in Converters : c[1] = from /\ c[2] = to}

\* explicit StrongInt(StrongInt<ArgTag...> arg):
\* value_(StrongIntConvert(arg, static_cast<StrongInt*>(nullptr)).value()).
\* The source is an instance of type from holding x's value; the constructor
\* itself calls no hook.
OpConvert ==
  /\ Running
  /\ \E from \in Types, to \in Types :
       /\ from # to
       /\ op' = "StrongInt(StrongInt)"
       /\ px' = x
       /\ py' = y
       /\ arg' = 0
       /\ tfrom' = from
       /\ tto' = to
       /\ retText' = <<>>
       /\ hooks' = <<>>
       /\ IF Viable(from, to) # {}
          THEN /\ retForm' = "value"
               /\ \E c \in Viable(from, to) :
                    retVal' = StrongIntConvert(c[1], c[2], kind, x)
          ELSE /\ retForm' = "illformed"
               /\ retVal' = 0
  /\ UNCHANGED <<x, y, status, ub>>
  /\ Frame

(* End of a statement *)

\* The statement that applied the operator ends: what it returned is
\* destroyed, and the next statement starts from x and y as they are.
EndStatement ==
  /\ status = "running"
  /\ op # "idle"
  /\ op' = "idle"
  /\ px' = x
  /\ py' = y
  /\ arg' = 0
  /\ hooks' = <<>>
  /\ retForm' = "none"
  /\ retVal' = 0
  /\ retText' = <<>>
  /\ tfrom' = ""
  /\ tto' = ""
  /\ UNCHANGED <<kind, validator, x, y, status, ub, steps, rangeVars, hashVars>>

----------------------------------------------------------------------------
(* The program of operators *)

\* x and y as built by the numeric constructor from values the validator
\* accepts.
Init ==
  /\ kind \in Kinds
  /\ validator \in Validators
  /\ x \in {v \in InputVals(kind) : ValidateInit(validator, kind, v)}
  /\ y \in {v \in RhsVals(kind) : ValidateInit(validator, kind, v)}
  /\ status = "running"
  /\ ub = FALSE
  /\ op = "idle"
  /\ px = x
  /\ py = y
  /\ arg = 0
  /\ hooks = <<>>
  /\ retForm = "none"
  /\ retVal = 0
  /\ retText = <<>>
  /\ tfrom = ""
  /\ tto = ""
  /\ begin_ = 0
  /\ end_ = 0
  /\ current_ = 0
  /\ out = <<>>
  /\ lpc = "norange"
  /\ prev = <<>>
  /\ runs = 0
  /\ table = <<>>
  /\ hx = -1
  /\ hy = -1
  /\ steps = 0

Next ==
  \/ DefaultConstruct
  \/ Construct
  \/ CopyAssign
  \/ OpNot
  \/ OpUnaryPlus
  \/ OpNegate
  \/ OpBitNot
  \/ OpPreIncrement
  \/ OpPostIncrement
  \/ OpPreDecrement
  \/ OpPostDecrement
  \/ OpAddAssign
  \/ OpSubtractAssign
  \/ OpMultiplyAssign
  \/ OpDivideAssign
  \/ OpModuloAssign
  \/ OpLeftShiftAssign
  \/ OpRightShiftAssign
  \/ OpBitAndAssign
  \/ OpBitOrAssign
  \/ OpBitXorAssign
  \/ OpChained
  \/ OpStrongVsStrong
  \/ OpStrongVsNumeric
  \/ OpNumericVsStrong
  \/ OpCompare
  \/ OpValue
  \/ OpLimits
  \/ OpStream
  \/ OpConvert
  \/ EndStatement

Spec == Init /\ [][Next]_vars

----------------------------------------------------------------------------
(* StrongIntRange and the range-for loop over it.  In this program op, px   *)
(* and py record the constructor used and its arguments.                    *)

\* Largest of the small values tried as a range's begin and end.
MaxRangeVal == 3
\* Loops run over one range.
MaxRuns == 2

RangeVals(k) == {Min(k), Max(k)} \cup {v \in 0 .. MaxRangeVal : Fits(k, v)}

\* IteratorNotEqual as a less-or-equal test.
IteratorNotPast(a, b) == a <= b
\* IteratorNotEqual as a less-than test.
IteratorLess(a, b) == a < b
\* StrongIntRangeIterator::operator!=: current_ != other.current_.
IteratorNotEqual(a, b) == a # b

\* StrongIntRange(IntType begin, IntType end), also through
\* MakeStrongIntRange(begin, end): stores the two values.
MakeRange ==
  /\ status = "running"
  /\ lpc = "norange"
  /\ \E b \in RangeVals(kind), e \in RangeVals(kind) :
       /\ op' = "StrongIntRange(begin, end)"
       /\ px' = b
       /\ py' = e
       /\ begin_' = b
       /\ end_' = e
  /\ lpc' = "ready"
  /\ hooks' = <<>>
  /\ UNCHANGED <<kind, validator, x, y, status, ub, arg, retForm, retVal, retText,
                 tfrom, tto, current_, out, prev, runs, hashVars, steps>>

\* explicit StrongIntRange(IntType end), also through MakeStrongIntRange(end):
\* begin_ is IntType(0), built by the numeric constructor and so subject to
\* the init hook.
MakeRangeFromZero ==
  /\ status = "running"
  /\ lpc = "norange"
  /\ \E e \in RangeVals(kind) :
       /\ op' = "StrongIntRange(end)"
       /\ px' = e
       /\ py' = e
       /\ hooks' = << <<"ValidateInit", 0, 0>> >>
       /\ IF ValidateInit(validator, kind, 0)
          THEN /\ begin_' = Cast(kind, 0)
               /\ end_' = e
               /\ lpc' = "ready"
               /\ status' = status
          ELSE /\ status' = "aborted"
               /\ UNCHANGED <<begin_, end_, lpc>>
  /\ UNCHANGED <<kind, validator, x, y, ub, arg, retForm, retVal, retText,
                 tfrom, tto, current_, out, prev, runs, hashVars, steps>>

\* for (auto v : range) starts: the loop's iterator is a copy of begin().
\* A loop over the same range may start again once the last one has ended.
LoopBegin ==
  /\ status = "running"
  /\ \/ lpc = "ready" /\ prev' = prev
     \/ lpc = "done" /\ runs < MaxRuns /\ prev' = out
  /\ current_' = begin_
  /\ out' = <<>>
  /\ lpc' = "loop"
  /\ hooks' = <<>>
  /\ UNCHANGED <<kind, validator, x, y, status, ub, op, px, py, arg, retForm, retVal,
                 retText, tfrom, tto, begin_, end_, runs, hashVars, steps>>

\* One turn of the loop: the iterator differs from end(), the body receives
\* *it, and ++it increments current_ with StrongInt's operator++.
LoopStep ==
  /\ status = "running"
  /\ ~ub
  /\ lpc = "loop"
  /\ IteratorNotEqual(current_, end_)
  /\ out' = Append(out, current_)
  /\ \E o \in StepOutcomes("+", current_) :
       /\ status' = o.st
       /\ hooks' = o.hk
       /\ ub' = (ub \/ o.undef)
       /\ current_' = IF o.st = "running" THEN o.v ELSE current_
  /\ UNCHANGED <<kind, validator, x, y, op, px, py, arg, retForm, retVal, retText,
                 tfrom, tto, begin_, end_, lpc, prev, runs, hashVars, steps>>

\* The loop ends: the iterator equals end().
LoopEnd ==
  /\ status = "running"
  /\ ~ub
  /\ lpc = "loop"
  /\ ~IteratorNotEqual(current_, end_)
  /\ lpc' = "done"
  /\ runs' = runs + 1
  /\ hooks' = <<>>
  /\ UNCHANGED <<kind, validator, x, y, status, ub, op, px, py, arg, retForm, retVal,
                 retText, tfrom, tto, begin_, end_, current_, out, prev, hashVars, steps>>

\* The program of loops: no instance besides the range's.
RangeInit ==
  /\ Init
  /\ x = 1
  /\ y = 1

RangeNext ==
  \/ MakeRange
  \/ MakeRangeFromZero
  \/ LoopBegin
  \/ LoopStep
  \/ LoopEnd

RangeSpec == RangeInit /\ [][RangeNext]_vars

----------------------------------------------------------------------------
(* Hashing.  An instance is its address and its value_; the program hashes  *)
(* x and y and uses them as keys of a hash container.                       *)

\* Width at which the model represents size_t (at least that of value_).
SizeBits == 10
\* Buckets of the container.
NumBuckets == 3
\* Keys the container holds at most.
MaxKeys == 2
\* Largest hash state handed to AbslHashValue.
MaxSeed == 1

InstanceX == [addr |-> 1, value_ |-> x]
InstanceY == [addr |-> 2, value_ |-> y]

\* Hasher with the hash taken from the instance's address.
HasherOfAddress(i) == i.addr % Pow2(SizeBits)
\* StrongInt::Hasher: static_cast<size_t>(x.value()).
Hasher(i) == i.value_ % Pow2(SizeBits)

\* std::hash<StrongInt>: derives from StrongInt::Hasher.
StdHash(i) == Hasher(i)

\* H::combine of the hashing framework: mixes a value into the hash state.
Combine(h, v) == (31 * h + (v % Pow2(SizeBits)) + 1) % Pow2(SizeBits)

\* AbslHashValue(H h, const StrongInt &i): H::combine(std::move(h), i.value_).
AbslHashValue(h, i) == Combine(h, i.value_)

HashFunctions == {"Hasher", "std::hash", "AbslHashValue"}
HashOf(f, h, i) ==
  CASE f = "Hasher"        -> Hasher(i)
    [] f = "std::hash"     -> StdHash(i)
    [] f = "AbslHashValue" -> AbslHashValue(h, i)

\* What the hashing steps leave alone.
HashFrame ==
  UNCHANGED <<kind, validator, x, y, status, ub, px, py, hooks, retText, tfrom,
              tto, rangeVars, steps>>

\* x and y are hashed with the same function (and the same hash state).
OpHash ==
  /\ status = "running"
  /\ \E f \in HashFunctions, h \in 0 .. MaxSeed :
       /\ op' = f
       /\ arg' = h
       /\ hx' = HashOf(f, h, InstanceX)
       /\ hy' = HashOf(f, h, InstanceY)
  /\ retForm' = "hash"
  /\ retVal' = hx'
  /\ table' = table
  /\ HashFrame

\* The container: the bucket of a key is its std::hash modulo the bucket
\* count; keys in a bucket are compared with operator==.
Bucket(i)    == StdHash(i) % NumBuckets
StoredKeys   == UNION {table[b] : b \in DOMAIN table}
Holds(i)     == \E k \in table[Bucket(i)] : Compare("==", k, i.value_)

\* insert(key): stores the key in its bucket unless an equal key is there.
MapInsert ==
  /\ status = "running"
  /\ Cardinality(StoredKeys) < MaxKeys
  /\ \E i \in {InstanceX, InstanceY} :
       /\ op' = "insert"
       /\ arg' = i.addr
       /\ retVal' = IF Holds(i) THEN 0 ELSE 1
       /\ table' = IF Holds(i) THEN table
                   ELSE [table EXCEPT ![Bucket(i)] = @ \cup {i.value_}]
  /\ retForm' = "bool"
  /\ UNCHANGED <<hx, hy>>
  /\ HashFrame

\* find(key): whether the key's bucket holds an equal key.
MapFind ==
  /\ status = "running"
  /\ \E i \in {InstanceX, InstanceY} :
       /\ op' = "find"
       /\ arg' = i.addr
       /\ retVal' = IF Holds(i) THEN 1 ELSE 0
  /\ retForm' = "bool"
  /\ UNCHANGED <<table, hx, hy>>
  /\ HashFrame

\* The program of hashes: an empty container.
HashInit ==
  /\ kind \in Kinds
  /\ validator = "NullStrongIntValidator"
  /\ x \in InputVals(kind)
  /\ y \in InputVals(kind)
  /\ status = "running"
  /\ ub = FALSE
  /\ op = "idle"
  /\ px = x
  /\ py = y
  /\ arg = 0
  /\ hooks = <<>>
  /\ retForm = "none"
  /\ retVal = 0
  /\ retText = <<>>
  /\ tfrom = ""
  /\ tto = ""
  /\ begin_ = 0
  /\ end_ = 0
  /\ current_ = 0
  /\ out = <<>>
  /\ lpc = "norange"
  /\ prev = <<>>
  /\ runs = 0
  /\ table = [b \in 0 .. NumBuckets - 1 |-> {}]
  /\ hx = -1
  /\ hy = -1
  /\ steps = 0

HashNext ==
  \/ OpHash
  \/ MapInsert
  \/ MapFind
  \/ CopyAssign
  \/ EndStatement

HashSpec == HashInit /\ [][HashNext]_vars

----------------------------------------------------------------------------
(* Properties of the operators *)

Null == "NullStrongIntValidator"

\* r is the value of the native type congruent to n modulo 2^w.
IsWrapOf(k, r, n) == Fits(k, r) /\ (r - n) % Pow2(Bits(k)) = 0

\* C1 as stated: under the default validator x + y always returns the sum
\* reduced modulo 2^w, for every native type, and changes neither operand.
C1_Original ==
  (op = "+" /\ validator = Null) =>
    /\ status = "running"
    /\ retForm = "value"
    /\ IsWrapOf(kind, retVal, px + py)
    /\ x = px
    /\ y = py

\* C1, amended: under the default validator, whenever the native sum is
\* defined (always for unsigned types and for types narrower than int, and
\* for a signed type of int rank or above when the sum is representable)
\* x + y returns that sum, reduced modulo 2^w, and changes neither operand.
C1_FreeAddIsNativeAdd ==
  (op = "+" /\ validator = Null /\ Defined("+", kind, px, py)) =>
    /\ status = "running"
    /\ retForm = "value"
    /\ IsWrapOf(kind, retVal, px + py)
    /\ x = px
    /\ y = py

\* x + y wrapped around in a type narrower than int.
C1_Witness ==
  /\ op = "+"
  /\ validator = Null
  /\ kind = "int8_t"
  /\ px = 127
  /\ py = 1
  /\ retForm = "value"
  /\ retVal = -128

\* C2: ++x and --x leave x holding v+1 and v-1 and return a reference to x;
\* x++ and x-- leave x the same way and return a copy holding v; all four
\* call the add or subtract hook exactly once, on (v, 1).  v+1 and v-1 are
\* the native results, which exist unless they overflow a signed type of int
\* rank or above.
C2_IncrementDecrement ==
  /\ op \in {"++x", "x++"} => hooks = << <<"ValidateAdd", px, 1>> >>
  /\ op \in {"--x", "x--"} => hooks = << <<"ValidateSubtract", px, 1>> >>
  /\ (op \in {"++x", "x++"} /\ status = "running" /\ Defined("+", kind, px, 1)) =>
       IsWrapOf(kind, x, px + 1)
  /\ (op \in {"--x", "x--"} /\ status = "running" /\ Defined("-", kind, px, 1)) =>
       IsWrapOf(kind, x, px - 1)
  /\ (op \in {"++x", "--x"} /\ status = "running") => (retForm = "ref" /\ retVal = x)
  /\ (op \in {"x++", "x--"} /\ status = "running") => (retForm = "value" /\ retVal = px)
  /\ op \in {"++x", "x++", "--x", "x--"} => y = py

\* x++ returned the old value and left the new one in x.
C2_Witness ==
  /\ op = "x++"
  /\ status = "running"
  /\ px = 65
  /\ x = 66
  /\ retForm = "value"
  /\ retVal = 65
  /\ hooks = << <<"ValidateAdd", 65, 1>> >>

\* C5: with a validator whose add hook ends the process when lhs + rhs does
\* not fit the native type, x += y aborts exactly when a + b does not fit,
\* with x still holding a; otherwise it completes with x holding a + b.
C5_CheckedAddAssign ==
  (op = "+=" /\ validator = "OverflowValidator") =>
    IF Fits(kind, px + py)
    THEN status = "running" /\ x = px + py /\ y = py
    ELSE status = "aborted" /\ x = px /\ y = py

\* x += y aborted on an overflowing sum.
C5_Witness ==
  /\ op = "+="
  /\ validator = "OverflowValidator"
  /\ ~Fits(kind, px + py)
  /\ status = "aborted"
  /\ x = px

\* C6 as stated: under the default validator no sequence of operators reaches
\* an abort or error state; every operator completes.
C6_Original == validator = Null => (status = "running" /\ ~ub)

\* C6, amended: under the default validator no hook ever ends the process;
\* an operator fails to complete only where the native operation itself is
\* undefined (a zero divisor, a shift count out of range, overflow of a
\* signed type of int rank or above), and every other operator completes.
C6_NullValidatorNeverAborts ==
  validator = Null =>
    /\ status # "aborted"
    /\ ~ub => status = "running"
    /\ status = "trapped" => ub

\* A second operator completed under the default validator, wrapping around.
C6_Witness ==
  /\ validator = Null
  /\ steps = MaxSteps
  /\ status = "running"
  /\ ~ub
  /\ op = "/="
  /\ arg = 2
  /\ px = 65
  /\ x = 32

\* C8: StrongInt<To>(StrongInt<From>) holds exactly the value of the result
\* of the converter defined for (From, To), here the source's value shifted
\* right by ConvShift; where no converter is defined for that ordered pair
\* (the reverse of a pair, or two pairs in a chain) the construction is
\* ill-formed.  The constructor calls no hook and changes no operand.
C8_ConvertingConstructor ==
  op = "StrongInt(StrongInt)" =>
    /\ <<tfrom, tto>> \in Converters =>
         /\ retForm = "value"
         /\ retVal * Pow2(ConvShift) <= px
         /\ px < (retVal + 1) * Pow2(ConvShift)
    /\ <<tfrom, tto>> \notin Converters => retForm = "illformed"
    /\ (tfrom = "Bytes" /\ tto = "Gigabytes") => retForm = "illformed"
    /\ hooks = <<>>
    /\ x = px
    /\ y = py

\* Megabytes built from Bytes holds the converter's result.
C8_Witness ==
  /\ op = "StrongInt(StrongInt)"
  /\ tfrom = "Bytes"
  /\ tto = "Megabytes"
  /\ px = 65
  /\ retForm = "value"
  /\ retVal = 32

\* C9 as stated: over every 8-bit native type an instance holding 65 is
\* written as the two characters "65".
C9_Original ==
  (op = "<<os" /\ Bits(kind) = CharBits /\ px = 65) => retText = <<54, 53>>

\* C10: StrongInt() calls the init hook once, on zero, before storing; where
\* the hook returns the instance holds zero, and a validator whose init hook
\* rejects zero aborts the construction.
C10_DefaultConstruction ==
  op = "StrongInt()" =>
    /\ hooks = << <<"ValidateInit", 0, 0>> >>
    /\ status = "running" => (x = 0 /\ retVal = 0)
    /\ validator = "NonZeroInitValidator" => (status = "aborted" /\ x = px)
    /\ validator # "NonZeroInitValidator" => status = "running"

\* The init hook rejected the zero of a default construction.
C10_Witness ==
  /\ op = "StrongInt()"
  /\ validator = "NonZeroInitValidator"
  /\ status = "aborted"
  /\ hooks = << <<"ValidateInit", 0, 0>> >>
  /\ x = px
  /\ px # 0

\* The right operand of a single x o= b as the statement gives it.
RhsOf(o) == IF o \in StrongVsStrongOps THEN py ELSE arg

\* What one application of o= to a value a with right operand b has done,
\* given the hook call h it logged and the value v it left: the matching
\* hook on (a, b), the store only after the hook returned, and the native
\* result a o b wherever that is defined.
AppliedOnce(o, a, b, h, v, st) ==
  /\ h = <<HookName(o), a, b>>
  /\ st = "aborted" => (v = a /\ ~Hook(o, validator, kind, a, b))
  /\ st = "trapped" => (v = a /\ ~Defined(o, kind, a, b))
  /\ st = "running" =>
       /\ Hook(o, validator, kind, a, b)
       /\ v \in Native(o, kind, a, b)
       /\ Defined(o, kind, a, b) => v = Cast(kind, Exact(o, kind, a, b))

\* C11: each compound assignment calls its matching hook exactly once, on
\* the left operand's value before the store and the right operand, and
\* only then stores the native result in x and returns a reference to x; an
\* aborting hook leaves x untouched.  In (x o1= a) o2= b the second operator
\* acts on x as the first left it, so the two apply left to right on x.
C11_CompoundAssignment ==
  /\ op \in AssignNames =>
       \A o \in CompoundOps :
         op = AssignName(o) =>
           /\ Len(hooks) = 1
           /\ AppliedOnce(o, px, RhsOf(o), hooks[1], x, status)
           /\ status = "running" => (retForm = "ref" /\ retVal = x)
           /\ y = py
  /\ op \in ChainNames =>
       \A o1 \in CompoundOps, o2 \in CompoundOps :
         op = ChainName(o1, o2) =>
           /\ Len(hooks) = 2
           /\ AppliedOnce(o1, px, IF o1 \in StrongVsStrongOps THEN py ELSE hooks[1][3],
                          hooks[1], hooks[2][2], "running")
           /\ AppliedOnce(o2, hooks[2][2], RhsOf(o2), hooks[2], x, status)
           /\ status = "running" => (retForm = "ref" /\ retVal = x)
           /\ y = py

\* (x += y) *= 3 on an int8_t: 65 + 1 = 66, then 66 * 3 = 198 wraps to -58,
\* both on x.
C11_Witness ==
  /\ op = ChainName("+", "*")
  /\ kind = "int8_t"
  /\ validator = Null
  /\ status = "running"
  /\ px = 65
  /\ py = 1
  /\ arg = 3
  /\ hooks = << <<"ValidateAdd", 65, 1>>, <<"ValidateMultiply", 66, 3>> >>
  /\ x = -58
  /\ retForm = "ref"

\* C12: StrongInt(v) calls the init hook once, on v as given and not on
\* its conversion, and then stores the value of the native type congruent to
\* v modulo 2^w; the default validator accepts every v, so a v outside the
\* native range is stored truncated; a rejecting hook leaves nothing built.
C12_NumericConstruction ==
  op = "StrongInt(T)" =>
    /\ hooks = << <<"ValidateInit", arg, 0>> >>
    /\ status \in {"running", "aborted"}
    /\ (status = "running") = ValidateInit(validator, kind, arg)
    /\ status = "running" =>
         (IsWrapOf(kind, x, arg) /\ retForm = "ref" /\ retVal = x)
    /\ status = "aborted" => x = px
    /\ validator = Null => status = "running"
    /\ y = py

\* MyStrongInt8 foo(1024) under the default validator: the hook saw 1024 and
\* foo holds 0.
C12_Witness ==
  /\ op = "StrongInt(T)"
  /\ kind = "int8_t"
  /\ validator = Null
  /\ arg = 1024
  /\ hooks = << <<"ValidateInit", 1024, 0>> >>
  /\ status = "running"
  /\ x = 0

\* Statements of one operator that returns a new StrongInt, and statements
\* of operators that act in place.
FreeNames    == CompoundOps \cup {"n*x"}
ReturnNames  == {"+x", "-x", "~x"} \cup FreeNames
InPlaceNames == {"++x", "x++", "--x", "x--"} \cup AssignNames \cup ChainNames
\* The native operator a free operator's statement applies.
OperatorOf(name) == IF name = "n*x" THEN "*" ELSE name

InitHookCalled == \E i \in 1 .. Len(hooks) : hooks[i][1] = "ValidateInit"
LastHook == hooks[Len(hooks)]

\* What x o b has done: its own hook on (a, b) first; if that returned and
\* the operation did not trap, the init hook on the converted native result,
\* which is returned if the init hook returns.  Where the init hook ended the
\* process, x o= b on the same operands completes and stores that value
\* after calling the operation hook alone.
FreeApplied(o, a, b) ==
  /\ Len(hooks) \in {1, 2}
  /\ hooks[1] = <<HookName(o), a, b>>
  /\ Len(hooks) = 1 =>
       \/ status = "aborted" /\ ~Hook(o, validator, kind, a, b)
       \/ status = "trapped" /\ ~Defined(o, kind, a, b)
  /\ Len(hooks) = 2 =>
       /\ Hook(o, validator, kind, a, b)
       /\ hooks[2][1] = "ValidateInit"
       /\ hooks[2][2] \in Native(o, kind, a, b)
       /\ status \in {"running", "aborted"}
       /\ (status = "running") = ValidateInit(validator, kind, hooks[2][2])
       /\ status = "running" => (retForm = "value" /\ retVal = hooks[2][2])
       /\ status = "aborted" =>
            \E c \in CompoundOutcomes(o, a, b) :
              c.st = "running" /\ c.v = hooks[2][2] /\ Len(c.hk) = 1

\* C13 as stated: every operator that returns a new StrongInt calls the init
\* hook last, on the value the result holds; the in-place operators never
\* call it.
C13_Original ==
  /\ (op \in ReturnNames /\ status = "running") =>
       (retForm = "value" /\ LastHook = <<"ValidateInit", retVal, 0>>)
  /\ op \in InPlaceNames => ~InitHookCalled

\* C13, amended: unary +, unary -, ~ and the free binary operators call the
\* init hook after their own hook, on the value they hand to the result's
\* constructor.  That is the value the result holds, except for unary minus
\* on a type narrower than int, where it is the int -v before conversion
\* (-1 for a uint8_t holding 1, whose negation holds 255).  ++, -- and the
\* compound assignments never call the init hook; so where the init hook
\* rejects the result, x o y aborts on operands on which x o= y completes
\* with that same value.
C13_InitHookOnlyOnNewValues ==
  /\ op = "+x" =>
       /\ hooks = << <<"ValidateInit", px, 0>> >>
       /\ (status = "running") = ValidateInit(validator, kind, px)
       /\ status = "running" => (retForm = "value" /\ retVal = px)
  /\ op = "-x" =>
       /\ Len(hooks) \in {1, 2}
       /\ hooks[1] = <<"ValidateNegate", px, 0>>
       /\ Len(hooks) = 1 => status \in {"aborted", "trapped"}
       /\ Len(hooks) = 2 =>
            /\ ValidateNegate(validator, kind, px)
            /\ hooks[2][1] = "ValidateInit"
            /\ Promoted(kind) => hooks[2][2] = 0 - px
            /\ (status = "running") = ValidateInit(validator, kind, hooks[2][2])
            /\ status = "running" =>
                 /\ retForm = "value"
                 /\ retVal = Cast(kind, hooks[2][2])
                 /\ ~Promoted(kind) => retVal = hooks[2][2]
  /\ op = "~x" =>
       /\ hooks = << <<"ValidateBitNot", px, 0>>,
                     <<"ValidateInit", Cast(kind, (0 - px) - 1), 0>> >>
       /\ status = "running" => (retForm = "value" /\ retVal = hooks[2][2])
  /\ op \in FreeNames => FreeApplied(OperatorOf(op), px, RhsOf(OperatorOf(op)))
  /\ op \in ReturnNames => (x = px /\ y = py)
  /\ op \in InPlaceNames => (Len(hooks) >= 1 /\ ~InitHookCalled)

\* With an init hook that rejects zero, x - y aborted on 1 - 1 after the
\* subtract hook had returned; x -= y on the same operands completes.
C13_Witness ==
  /\ op = "-"
  /\ validator = "NonZeroInitValidator"
  /\ px = 1
  /\ py = 1
  /\ status = "aborted"
  /\ hooks = << <<"ValidateSubtract", 1, 1>>, <<"ValidateInit", 0, 0>> >>
  /\ \E c \in CompoundOutcomes("-", 1, 1) : c.st = "running" /\ c.v = 0

----------------------------------------------------------------------------
(* Properties of StrongIntRange *)

InLoop == lpc \in {"loop", "done"}

\* C3: for begin <= end the loop yields begin, begin+1, ..., end-1 in this
\* order, each once, and then ends (nothing when begin = end); the range
\* built from end alone starts at zero; the stored begin and end are those
\* given and a second loop over the range yields the same values.
C3_RangeYieldsHalfOpenInterval ==
  /\ (lpc # "norange") => (end_ = py /\ begin_ = (IF op = "StrongIntRange(end)" THEN 0 ELSE px))
  /\ (InLoop /\ begin_ <= end_) =>
       /\ status = "running"
       /\ ~ub
       /\ begin_ <= current_
       /\ current_ <= end_
       /\ Len(out) = current_ - begin_
       /\ \A i \in 1 .. Len(out) : out[i] = begin_ + i - 1
  /\ (lpc = "done" /\ begin_ <= end_) => Len(out) = end_ - begin_
  /\ (lpc = "done" /\ begin_ <= end_ /\ runs >= 2) => out = prev

\* Range(0, 3) was looped over twice and yielded 0, 1, 2 both times.
C3_Witness ==
  /\ lpc = "done"
  /\ runs = 2
  /\ op = "StrongIntRange(end)"
  /\ begin_ = 0
  /\ end_ = 3
  /\ out = <<0, 1, 2>>
  /\ prev = <<0, 1, 2>>

\* C4 as stated: with begin greater than end the loop never ends.
C4_Original == (begin_ > end_) => lpc # "done"

\* C4, amended: with begin greater than end the loop does not yield an empty
\* result and does not end when the current value passes end: it yields
\* begin, begin+1, ... up to the native maximum.  There the increment wraps
\* around for unsigned types and types narrower than int, and the loop then
\* ends after exactly 2^w - (begin - end) values; for a signed type of int
\* rank or above the increment overflows (undefined), and a validator that
\* checks additions ends the process, so the loop does not end normally.
C4_MisusedRangeRunsToTheMaximum ==
  (InLoop /\ begin_ > end_) =>
    /\ \A i \in 1 .. Len(out) : IsWrapOf(kind, out[i], begin_ + i - 1)
    /\ (status = "running" /\ ~ub) => IsWrapOf(kind, current_, begin_ + Len(out))
    /\ lpc = "done" =>
         /\ Len(out) = Pow2(Bits(kind)) - (begin_ - end_)
         /\ Promoted(kind) \/ ~Signed(kind)
         /\ ~Checks(validator)
    /\ (status = "aborted" \/ ub) => Len(out) = Max(kind) - begin_ + 1
    /\ status = "aborted" => current_ = Max(kind)

\* A loop from 3 to 0 over uint8_t ended after wrapping around.
C4_Witness ==
  /\ lpc = "done"
  /\ kind = "uint8_t"
  /\ begin_ = 3
  /\ end_ = 0
  /\ Len(out) = 253
  /\ out[253] = 255

----------------------------------------------------------------------------
(* Properties of hashing *)

\* C7: two instances with equal values hash equally, with StrongInt::Hasher,
\* std::hash and AbslHashValue alike; so a lookup with an instance equal to a
\* stored key finds it, whichever instance the key was inserted with.
C7_HashConsistentWithEquality ==
  /\ (op \in HashFunctions /\ Compare("==", x, y)) => hx = hy
  /\ (op = "find" /\ arg = 2 /\ (\E k \in StoredKeys : Compare("==", k, y))) => retVal = 1
  /\ (op = "find" /\ arg = 1 /\ (\E k \in StoredKeys : Compare("==", k, x))) => retVal = 1

\* A key inserted with x alone was found with the equal y.
C7_Witness ==
  /\ op = "find"
  /\ arg = 2
  /\ x = y
  /\ x = -1
  /\ StoredKeys = {-1}
  /\ retVal = 1

====
